---- MODULE Spec2Model ----
(***************************************************************************)
(* Model of nautilus_core/common/src/logging/mod.rs: the process-wide      *)
(* logging flags, the installation of the Logger as the `log` sink, the    *)
(* producer side (Logger::enabled / Logger::log / Logger::flush), the      *)
(* unbounded mpsc channel between producers and the consumer thread, and   *)
(* the consumer loop Logger::handle_messages with its three writers.       *)
(*                                                                         *)
(* The writers themselves (logging/writer.rs) are a sibling module; their  *)
(* `enabled` predicates and FileWriter::new are modelled after section 4.3 *)
(* of the specification.                                                   *)
(*                                                                         *)
(* The specifications share the actions and differ in the inputs they      *)
(* enumerate: Spec and FairSpec run two producer threads against the plain *)
(* setups of the module's tests, FilterSpec and OfferSpec run one producer *)
(* against every combination of stdout, fileout and component levels,      *)
(* InstallSpec runs sequences of installation calls, ClockSpec sets the    *)
(* clock mode and the static time around the log calls, SinkSpec runs      *)
(* every combination of is_colored and the file format. ParseSpec and      *)
(* WrapperSpec apply LoggerConfig::from_spec and the getters of            *)
(* LogLineWrapper to every input of a bounded set.                         *)
(***************************************************************************)
EXTENDS Integers, Sequences, FiniteSets, TLC

\* ------------------------------------------------------------------ levels
\* log::LevelFilter / log::Level discriminants (`level <= filter` compares them).
Off == 0
Error == 1
Warn == 2
Info == 3
Debug == 4

\* ------------------------------------------------------------------ bounds
\* Number of log calls each producer thread may make.
MaxLogs == 2
\* Number of Logger::flush calls in a run.
MaxFlush == 2
\* Number of installation calls in a run.
MaxInits == 2
\* Largest time, in ns, logging_clock_set_static_time is called with.
MaxStaticTime == 2
\* Number of clock-setting calls in a run.
MaxClockOps == 2
\* Number of times the real-time clock is seen to advance in a run.
MaxTicks == 1
\* Number of ';'-separated tokens in a spec string.
MaxTokens == 2
\* Length of a record's message, in characters.
MaxMessageLen == 3
\* Number of times the JSON rendering of one LogLineWrapper is built in a run.
MaxJsonBuilds == 2

Producers == {1, 2}
Components == {"RiskEngine", "Portfolio"}

VARIABLES
    LOGGING_INITIALIZED,  \* static AtomicBool
    LOGGING_BYPASSED,     \* static AtomicBool
    LOGGING_COLORED,      \* static AtomicBool
    logger,               \* the `log` crate's global sink: <<>> or <<config>>
    tx_dropped,           \* the installed Logger (sole Sender) has been dropped
    queue,                \* events in the channel, oldest first
    consumer,             \* "none" | "running" | "terminated"
    exit_cause,           \* why the consumer loop ended: "none" | "flush" | "hangup"
    file_writer_opt,      \* the consumer's file writer: <<>> or <<writer>>
    io,                   \* per producer: writer calls made for its records, in order
    diag,                 \* per producer: records named by its send-failure eprintln!s
    init_errors,          \* "Cannot set logger" lines written by failed installs
    received,             \* per producer: its records the consumer dequeued, in order
    calls,                \* per producer: its Logger::log calls, in order
    panicked,             \* threads that have panicked
    nflush,               \* flush calls made
    ninit,                \* installation calls made
    LOGGING_REALTIME,     \* static AtomicBool
    static_clock,         \* the static AtomicTime's register, in ns
    realtime_clock,       \* what the real-time AtomicTime reads now, in ns
    clock_ops,            \* clock-setting calls completed
    stamps,               \* per producer: the clock reads made for its records
    printed,              \* println! lines of installation and consumer start-up
    spawned,              \* consumer threads spawned
    env_spec,             \* the spec string handed to LoggerConfig::from_spec
    parsed,               \* what from_spec returned: <<>> or <<config>>
    wrapper,              \* a LogLineWrapper under test: <<>> or <<wrapper>>
    builds,               \* how often each rendering of `wrapper` was built
    last                  \* the last rendering `wrapper` returned: <<>> or <<kind, text>>

vars == << LOGGING_INITIALIZED, LOGGING_BYPASSED, LOGGING_COLORED, logger,
           tx_dropped, queue, consumer, exit_cause, file_writer_opt, io, diag,
           init_errors, received, calls, panicked, nflush, ninit,
           LOGGING_REALTIME, static_clock, realtime_clock, clock_ops, stamps,
           printed, spawned, env_spec, parsed, wrapper, builds, last >>

\* The clock statics, and the variables of the pure-function specifications.
clock_vars == << LOGGING_REALTIME, static_clock, realtime_clock, clock_ops >>
pure_vars == << env_spec, parsed, wrapper, builds, last >>

\* ------------------------------------------------------------ data model
\* LoggerConfig::new; component_level is the map's `get` over the keys in use: an
\* entry is <<>> (no entry) or <<filter>>.
LoggerConfig(stdout_level, fileout_level, component_level, is_colored, print_config) ==
    [ stdout_level |-> stdout_level,
      fileout_level |-> fileout_level,
      component_level |-> component_level,
      is_colored |-> is_colored,
      print_config |-> print_config ]

\* HashMap::new().
NoComponentLevels == [c \in Components |-> <<>>]

\* A component_level map with the single entry RiskEngine=filter.
RiskEngineLevel(filter) ==
    [c \in Components |-> IF c = "RiskEngine" THEN <<filter>> ELSE <<>>]

\* FileWriterConfig: only file_format ("json" or anything else) reaches this module.
FileWriterConfig(json_format) == [ json_format |-> json_format ]

\* The (config, file_config) pairs of test_logging_to_file,
\* test_log_component_level_filtering and test_logging_to_file_in_json_format.
TestSetups ==
    { << LoggerConfig(Info, Debug, NoComponentLevels, FALSE, FALSE),
         FileWriterConfig(FALSE) >>,
      << LoggerConfig(Info, Debug, RiskEngineLevel(Error), FALSE, FALSE),
         FileWriterConfig(FALSE) >>,
      << LoggerConfig(Info, Debug, RiskEngineLevel(Info), TRUE, FALSE),
         FileWriterConfig(TRUE) >> }

\* The setups that write plain text: those of test_logging_to_file and
\* test_log_component_level_filtering.
PlainTestSetups == { setup \in TestSetups : ~setup[1].is_colored }

\* Every combination of the levels below, uncolored.
AllConfigs ==
    { LoggerConfig(s, f, m, FALSE, FALSE) :
        s \in {Off, Info}, f \in {Off, Error, Debug},
        m \in {NoComponentLevels} \cup
              { RiskEngineLevel(l) : l \in {Off, Error, Info} } }

\* LogEvent::Log(LogLine): the record of producer p's n-th log call.
LogEvent(p, n, level, component) ==
    [ kind |-> "Log", p |-> p, n |-> n, level |-> level, component |-> component ]

\* LogEvent::Flush.
FlushEvent ==
    [ kind |-> "Flush", p |-> 0, n |-> 0, level |-> Off, component |-> "" ]

\* ------------------------------------------------------------ spec string
\* A spec string is a sequence of symbols: the separators ";" and "=", and words,
\* each standing for a run of characters that holds neither separator.
Keys == {"stdout", "fileout", "RiskEngine", "is_colored"}
Values == {"Debug", "Error", "WARN", "warn", "WARNING", "warning", "x"}

\* The tokens the spec strings are made of: the empty token, bare words, `K=`,
\* `K=V` and `K=V=x`.
SpecTokens ==
    {<<>>}
    \cup { <<w>> : w \in Keys \cup {"print_config"} }
    \cup { <<k, "=">> : k \in Keys }
    \cup { <<k, "=", v>> : k \in Keys, v \in Values }
    \cup { <<k, "=", v, "=", "x">> : k \in Keys, v \in Values }

\* The spec strings of log_config_parsing and log_config_parsing2.
TestSpecs ==
    { << "stdout", "=", "Info", ";", "is_colored", ";", "fileout", "=", "Debug", ";",
         "RiskEngine", "=", "Error" >>,
      << "stdout", "=", "Warn", ";", "print_config", ";", "fileout", "=", "Error", ";" >> }

\* The tokens joined with ";".
RECURSIVE Join(_)
Join(tokens) ==
    IF Len(tokens) = 1
       THEN tokens[1]
       ELSE tokens[1] \o <<";">> \o Join(Tail(tokens))

\* The spec strings of one to MaxTokens tokens.
SpecStrings ==
    { Join(tokens) : tokens \in UNION { [1..n -> SpecTokens] : n \in 1..MaxTokens } }

\* The keys a parsed component_level map is looked up with.
KeyTexts == {<<>>} \cup { <<k>> : k \in Keys }

\* LoggerConfig::default().
DefaultConfig == LoggerConfig(Info, Off, [k \in KeyTexts |-> <<>>], FALSE, FALSE)

\* str::split(sep): the pieces between the separators, empty pieces included.
RECURSIVE Split(_, _)
Split(text, sep) ==
    IF \A i \in 1..Len(text) : text[i] # sep
       THEN <<text>>
       ELSE LET i == CHOOSE j \in 1..Len(text) :
                        text[j] = sep /\ \A h \in 1..(j - 1) : text[h] # sep
            IN  <<SubSeq(text, 1, i - 1)>> \o Split(SubSeq(text, i + 1, Len(text)), sep)

\* ASCII upper-casing of the model's words.
ToUpper(word) ==
    CASE word = "Debug" -> "DEBUG"
      [] word = "Error" -> "ERROR"
      [] word \in {"WARN", "warn"} -> "WARN"
      [] word \in {"WARNING", "warning"} -> "WARNING"
      [] word = "Info" -> "INFO"
      [] word = "Warn" -> "WARN"
      [] word = "x" -> "X"
      [] OTHER -> word

\* log::LevelFilter::from_str: the name that equals the text ignoring ASCII case;
\* <<>> is Err, <<filter>> is Ok(filter).
LevelFilterFromStr(text) ==
    IF Len(text) # 1 THEN <<>>
    ELSE CASE ToUpper(text[1]) = "OFF" -> <<Off>>
           [] ToUpper(text[1]) = "ERROR" -> <<Error>>
           [] ToUpper(text[1]) = "WARN" -> <<Warn>>
           [] ToUpper(text[1]) = "INFO" -> <<Info>>
           [] ToUpper(text[1]) = "DEBUG" -> <<Debug>>
           [] OTHER -> <<>>

\* The closure from_spec runs on each ';'-separated piece.
ApplyToken(cfg, kv) ==
    IF kv = <<"is_colored">> THEN [cfg EXCEPT !.is_colored = TRUE]
    ELSE IF kv = <<"print_config">> THEN [cfg EXCEPT !.print_config = TRUE]
    ELSE LET parts == Split(kv, "=")
             lvl == IF Len(parts) >= 2 THEN LevelFilterFromStr(parts[2]) ELSE <<>>
             k == parts[1]
         IN  IF lvl = <<>> THEN cfg
             ELSE IF k = <<"stdout">> THEN [cfg EXCEPT !.stdout_level = lvl[1]]
             ELSE IF k = <<"fileout">> THEN [cfg EXCEPT !.fileout_level = lvl[1]]
             ELSE [cfg EXCEPT !.component_level[k] = lvl]

\* for_each over the pieces, in order.
RECURSIVE ForEach(_, _)
ForEach(cfg, pieces) ==
    IF pieces = <<>> THEN cfg
    ELSE ForEach(ApplyToken(cfg, Head(pieces)), Tail(pieces))

\* LoggerConfig::from_spec.
FromSpec(spec) == ForEach(DefaultConfig, Split(spec, ";"))

\* A call of LoggerConfig::from_spec on the spec string.
FromSpecCall ==
    /\ parsed = <<>>
    /\ parsed' = <<FromSpec(env_spec)>>
    /\ UNCHANGED << LOGGING_INITIALIZED, LOGGING_BYPASSED, LOGGING_COLORED, logger,
                    tx_dropped, queue, consumer, exit_cause, file_writer_opt, io, diag,
                    init_errors, received, calls, panicked, nflush, ninit,
                    stamps, printed, spawned, clock_vars,
                    env_spec, wrapper, builds, last >>

\* ------------------------------------------------------------ renderings
\* A text is a sequence of characters. "LF" is the newline, "Q" the double quote and
\* "BS" the backslash; a longer string stands for a run of characters that holds
\* none of the three.
MessageChars == {"a", "LF", "Q"}

\* The message strings of up to MaxMessageLen characters.
Messages == UNION { [1..n -> MessageChars] : n \in 0..MaxMessageLen }

\* LogLine, in the order of its fields.
LogLine(level, color, component, message) ==
    [ level |-> level, color |-> color, component |-> component, message |-> message ]

\* The records whose renderings are built: the test's record with every message.
LogLines ==
    { LogLine(level, "NORMAL", "RiskEngine", message) :
        level \in {Error, Info}, message \in Messages }

\* Display of log::Level.
LevelName(level) ==
    CASE level = Error -> "ERROR"
      [] level = Warn -> "WARN"
      [] level = Info -> "INFO"
      [] level = Debug -> "DEBUG"

\* LogLineWrapper::new: both caches empty.
LogLineWrapper(line, trader_id, timestamp) ==
    [ line |-> line, cache |-> <<>>, colored |-> <<>>,
      timestamp |-> timestamp, trader_id |-> trader_id ]

\* The format! of get_string.
FormatPlain(w) ==
    << w.timestamp, " [", LevelName(w.line.level), "] ", w.trader_id, ".",
       w.line.component, ": " >> \o w.line.message \o <<"LF">>

\* The format! of get_colored.
FormatColored(w) ==
    << "ESC[1m", w.timestamp, "ESC[0m", " ", w.line.color, "[",
       LevelName(w.line.level), "] ", w.trader_id, ".", w.line.component, ": " >>
    \o w.line.message \o <<"ESC[0m", "LF">>

\* serde_json's string escaping on the model's characters.
RECURSIVE JsonEscape(_)
JsonEscape(text) ==
    IF text = <<>> THEN <<>>
    ELSE (CASE Head(text) = "LF" -> <<"BS", "n">>
            [] Head(text) = "Q" -> <<"BS", "Q">>
            [] Head(text) = "BS" -> <<"BS", "BS">>
            [] OTHER -> <<Head(text)>>) \o JsonEscape(Tail(text))

\* serde_json::to_string(&LogLine): one object, the strings escaped.
JsonOfLine(line) ==
    << "{", "Q", "level", "Q", ":", "Q", LevelName(line.level), "Q", ",",
       "Q", "color", "Q", ":", "Q", line.color, "Q", ",",
       "Q", "component", "Q", ":", "Q" >> \o JsonEscape(<<line.component>>)
    \o << "Q", ",", "Q", "message", "Q", ":", "Q" >> \o JsonEscape(line.message)
    \o << "Q", "}" >>

\* The format! of get_json.
FormatJson(w) == JsonOfLine(w.line) \o <<"LF">>

\* LogLineWrapper::get_string: cache.get_or_insert_with builds the text when the
\* cache is None.
GetString ==
    /\ Len(wrapper) = 1
    /\ LET w == wrapper[1]
           text == IF w.cache = <<>> THEN FormatPlain(w) ELSE w.cache[1]
       IN  /\ wrapper' = << [w EXCEPT !.cache = <<text>>] >>
           /\ builds' = IF w.cache = <<>>
                           THEN [builds EXCEPT !.plain = @ + 1] ELSE builds
           /\ last' = <<"plain", text>>
    /\ UNCHANGED << LOGGING_INITIALIZED, LOGGING_BYPASSED, LOGGING_COLORED, logger,
                    tx_dropped, queue, consumer, exit_cause, file_writer_opt, io, diag,
                    init_errors, received, calls, panicked, nflush, ninit,
                    stamps, printed, spawned, clock_vars, env_spec, parsed >>

\* LogLineWrapper::get_colored: colored.get_or_insert_with builds the text when the
\* cache is None.
GetColored ==
    /\ Len(wrapper) = 1
    /\ LET w == wrapper[1]
           text == IF w.colored = <<>> THEN FormatColored(w) ELSE w.colored[1]
       IN  /\ wrapper' = << [w EXCEPT !.colored = <<text>>] >>
           /\ builds' = IF w.colored = <<>>
                           THEN [builds EXCEPT !.colored = @ + 1] ELSE builds
           /\ last' = <<"colored", text>>
    /\ UNCHANGED << LOGGING_INITIALIZED, LOGGING_BYPASSED, LOGGING_COLORED, logger,
                    tx_dropped, queue, consumer, exit_cause, file_writer_opt, io, diag,
                    init_errors, received, calls, panicked, nflush, ninit,
                    stamps, printed, spawned, clock_vars, env_spec, parsed >>

\* LogLineWrapper::get_json: takes &self and serializes the line on every call.
GetJson ==
    /\ Len(wrapper) = 1
    /\ builds.json < MaxJsonBuilds
    /\ builds' = [builds EXCEPT !.json = @ + 1]
    /\ last' = <<"json", FormatJson(wrapper[1])>>
    /\ UNCHANGED << LOGGING_INITIALIZED, LOGGING_BYPASSED, LOGGING_COLORED, logger,
                    tx_dropped, queue, consumer, exit_cause, file_writer_opt, io, diag,
                    init_errors, received, calls, panicked, nflush, ninit,
                    stamps, printed, spawned, clock_vars, env_spec, parsed, wrapper >>

\* -------------------------------------------------------------- channel
\* Sender::send putting the event at the front of the queue.
SendLifo(q, event) == <<event>> \o q

\* Sender::send on a connected channel: the event goes to the back of the queue.
Send(q, event) == Append(q, event)

\* The receiver lives in the consumer thread and is dropped when it returns.
ReceiverDropped == consumer = "terminated"

\* ------------------------------------------------------------- producer
\* Logger::enabled with `<` in place of `<=`.
EnabledStrict(cfg, level) ==
    /\ ~LOGGING_BYPASSED
    /\ \/ level = Error
       \/ level < cfg.stdout_level
       \/ level < cfg.fileout_level

\* Logger::enabled letting Error records through the bypass.
EnabledErrorFirst(cfg, level) ==
    \/ level = Error
    \/ /\ ~LOGGING_BYPASSED
       /\ \/ level <= cfg.stdout_level
          \/ level <= cfg.fileout_level

\* Logger::enabled without its `level == Error` clause.
EnabledNoErrorClause(cfg, level) ==
    /\ ~LOGGING_BYPASSED
    /\ \/ level <= cfg.stdout_level
       \/ level <= cfg.fileout_level

\* Logger::enabled without its fileout_level clause.
EnabledStdoutOnly(cfg, level) ==
    /\ ~LOGGING_BYPASSED
    /\ \/ level = Error
       \/ level <= cfg.stdout_level

\* Logger::enabled.
Enabled(cfg, level) ==
    /\ ~LOGGING_BYPASSED
    /\ \/ level = Error
       \/ level <= cfg.stdout_level
       \/ level <= cfg.fileout_level

\* The send-failure branch of Logger::log without its eprintln!.
SendFailedSilent(d, line) == d

\* The send-failure branch of Logger::log: one eprintln! naming the record.
SendFailed(d, line) == [d EXCEPT ![line.p] = Append(@, line.n)]

\* Logger::log called by producer p on the installed logger (before installation
\* the `log` crate hands records to its no-op logger). `calls` keeps, for each call,
\* its inputs and what the caller could observe when it made it.
Log(p, level, component) ==
    /\ Len(logger) = 1
    /\ ~tx_dropped
    /\ p \notin panicked
    /\ Len(calls[p]) < MaxLogs
    /\ LET cfg == logger[1]
           line == LogEvent(p, Len(calls[p]) + 1, level, component)
           admitted == Enabled(cfg, level)
       IN  /\ calls' = [calls EXCEPT ![p] = Append(@,
                  [ level |-> level,
                    component |-> component,
                    bypassed |-> LOGGING_BYPASSED,
                    rx_alive |-> ~ReceiverDropped,
                    realtime |-> LOGGING_REALTIME,
                    static_time |-> static_clock,
                    clock_ops |-> clock_ops,
                    behind_flush |-> \E i \in 1..Len(queue) :
                                        queue[i].kind = "Flush" ])]
           /\ IF admitted /\ ~ReceiverDropped
                 THEN queue' = Send(queue, line)
                 ELSE queue' = queue
           /\ IF admitted /\ ReceiverDropped
                 THEN diag' = SendFailed(diag, line)
                 ELSE diag' = diag
    /\ UNCHANGED << LOGGING_INITIALIZED, LOGGING_BYPASSED, LOGGING_COLORED, logger,
                    tx_dropped, consumer, exit_cause, file_writer_opt, io,
                    init_errors, received, panicked, nflush, ninit,
                    stamps, printed, spawned, clock_vars, pure_vars >>

\* Logger::flush called by thread p: send(Flush).unwrap() panics when the send fails.
Flush(p) ==
    /\ Len(logger) = 1
    /\ ~tx_dropped
    /\ p \notin panicked
    /\ nflush < MaxFlush
    /\ nflush' = nflush + 1
    /\ IF ReceiverDropped
          THEN /\ panicked' = panicked \cup {p}
               /\ queue' = queue
          ELSE /\ queue' = Send(queue, FlushEvent)
               /\ panicked' = panicked
    /\ UNCHANGED << LOGGING_INITIALIZED, LOGGING_BYPASSED, LOGGING_COLORED, logger,
                    tx_dropped, consumer, exit_cause, file_writer_opt, io, diag,
                    init_errors, received, calls, ninit,
                    stamps, printed, spawned, clock_vars, pure_vars >>

\* logging_set_bypass.
SetBypass ==
    /\ LOGGING_BYPASSED' = TRUE
    /\ UNCHANGED << LOGGING_INITIALIZED, LOGGING_COLORED, logger, tx_dropped, queue,
                    consumer, exit_cause, file_writer_opt, io, diag, init_errors,
                    received, calls, panicked, nflush, ninit,
                    stamps, printed, spawned, clock_vars, pure_vars >>

\* ---------------------------------------------------------------- clock
\* logging_clock_set_realtime_mode.
SetRealtimeMode ==
    /\ clock_ops < MaxClockOps
    /\ clock_ops' = clock_ops + 1
    /\ LOGGING_REALTIME' = TRUE
    /\ UNCHANGED << LOGGING_INITIALIZED, LOGGING_BYPASSED, LOGGING_COLORED, logger,
                    tx_dropped, queue, consumer, exit_cause, file_writer_opt, io, diag,
                    init_errors, received, calls, panicked, nflush, ninit,
                    static_clock, realtime_clock, stamps, printed, spawned, pure_vars >>

\* logging_clock_set_static_mode.
SetStaticMode ==
    /\ clock_ops < MaxClockOps
    /\ clock_ops' = clock_ops + 1
    /\ LOGGING_REALTIME' = FALSE
    /\ UNCHANGED << LOGGING_INITIALIZED, LOGGING_BYPASSED, LOGGING_COLORED, logger,
                    tx_dropped, queue, consumer, exit_cause, file_writer_opt, io, diag,
                    init_errors, received, calls, panicked, nflush, ninit,
                    static_clock, realtime_clock, stamps, printed, spawned, pure_vars >>

\* logging_clock_set_static_time.
SetStaticTime(time_ns) ==
    /\ clock_ops < MaxClockOps
    /\ clock_ops' = clock_ops + 1
    /\ static_clock' = time_ns
    /\ UNCHANGED << LOGGING_INITIALIZED, LOGGING_BYPASSED, LOGGING_COLORED, logger,
                    tx_dropped, queue, consumer, exit_cause, file_writer_opt, io, diag,
                    init_errors, received, calls, panicked, nflush, ninit,
                    LOGGING_REALTIME, realtime_clock, stamps, printed, spawned,
                    pure_vars >>

\* Time passes: the real-time clock reads later than before.
Tick ==
    /\ realtime_clock < MaxStaticTime + 1 + MaxTicks
    /\ realtime_clock' = realtime_clock + 1
    /\ UNCHANGED << LOGGING_INITIALIZED, LOGGING_BYPASSED, LOGGING_COLORED, logger,
                    tx_dropped, queue, consumer, exit_cause, file_writer_opt, io, diag,
                    init_errors, received, calls, panicked, nflush, ninit,
                    LOGGING_REALTIME, static_clock, clock_ops, stamps, printed,
                    spawned, pure_vars >>

\* -------------------------------------------------------------- writers
\* StderrWriter::enabled.
StderrEnabled(line) == line.level = Error

\* StdoutWriter::enabled, for a writer built with `stdout_level`.
StdoutEnabled(line, stdout_level) ==
    line.level <= stdout_level /\ line.level # Error

\* FileWriter::enabled, for a writer built with `fileout_level`.
FileEnabled(line, writer) == line.level <= writer.level

\* FileWriter::new; `created` is whether it returned Some.
NewFileWriter(fileout_level, file_config, created) ==
    IF created
       THEN << [ level |-> fileout_level, json_format |-> file_config.json_format ] >>
       ELSE <<>>

\* ------------------------------------------------------------- consumer
\* The component filter with `>=` in place of `>`.
ComponentDiscardsInclusive(cfg, line) ==
    LET component_level == cfg.component_level[line.component]
    IN  Len(component_level) = 1 /\ line.level >= component_level[1]

\* The component filter of handle_messages: `continue` when the record's component
\* has an entry and the record's level is greater than it.
ComponentDiscards(cfg, line) ==
    LET component_level == cfg.component_level[line.component]
    IN  Len(component_level) = 1 /\ line.level > component_level[1]

\* A writer's write of one rendering of `line`, with the flush removed.
WriteOnly(writer, line, rendering) ==
    << <<writer, "write", line.n, rendering>> >>

\* A writer's write of one rendering of `line` made twice before the flush.
WriteTwice(writer, line, rendering) ==
    << <<writer, "write", line.n, rendering>>,
       <<writer, "write", line.n, rendering>>,
       <<writer, "flush", line.n, "">> >>

\* A writer's write of one rendering of `line`, followed by its flush.
WriteFlush(writer, line, rendering) ==
    << <<writer, "write", line.n, rendering>>,
       <<writer, "flush", line.n, "">> >>

\* The body of the loop with the stdout writer written without asking `enabled`.
OfferStdoutUnguarded(cfg, fw, line) ==
    LET std == IF cfg.is_colored THEN "colored" ELSE "plain"
        to_stderr == IF StderrEnabled(line)
                        THEN WriteFlush("stderr", line, std) ELSE <<>>
        to_stdout == WriteFlush("stdout", line, std)
        to_file == IF Len(fw) = 1 /\ FileEnabled(line, fw[1])
                      THEN WriteFlush("file", line,
                                      IF fw[1].json_format THEN "json" ELSE "plain")
                      ELSE <<>>
    IN  to_stderr \o to_stdout \o to_file

\* The body of the loop with the file writer handed what stdout is handed when it
\* does not write JSON.
OfferFileColored(cfg, fw, line) ==
    LET std == IF cfg.is_colored THEN "colored" ELSE "plain"
        to_stderr == IF StderrEnabled(line)
                        THEN WriteFlush("stderr", line, std) ELSE <<>>
        to_stdout == IF StdoutEnabled(line, cfg.stdout_level)
                        THEN WriteFlush("stdout", line, std) ELSE <<>>
        to_file == IF Len(fw) = 1 /\ FileEnabled(line, fw[1])
                      THEN WriteFlush("file", line,
                                      IF fw[1].json_format THEN "json" ELSE std)
                      ELSE <<>>
    IN  to_stderr \o to_stdout \o to_file

\* The body of the loop with the file writer offered the record first.
OfferFileFirst(cfg, fw, line) ==
    LET std == IF cfg.is_colored THEN "colored" ELSE "plain"
        to_stderr == IF StderrEnabled(line)
                        THEN WriteFlush("stderr", line, std) ELSE <<>>
        to_stdout == IF StdoutEnabled(line, cfg.stdout_level)
                        THEN WriteFlush("stdout", line, std) ELSE <<>>
        to_file == IF Len(fw) = 1 /\ FileEnabled(line, fw[1])
                      THEN WriteFlush("file", line,
                                      IF fw[1].json_format THEN "json" ELSE "plain")
                      ELSE <<>>
    IN  to_file \o to_stderr \o to_stdout

\* The body of the loop for LogEvent::Log(line) past the component filter: the
\* record is offered to stderr, stdout and the optional file writer, in that order.
Offer(cfg, fw, line) ==
    LET std == IF cfg.is_colored THEN "colored" ELSE "plain"
        to_stderr == IF StderrEnabled(line)
                        THEN WriteFlush("stderr", line, std) ELSE <<>>
        to_stdout == IF StdoutEnabled(line, cfg.stdout_level)
                        THEN WriteFlush("stdout", line, std) ELSE <<>>
        to_file == IF Len(fw) = 1 /\ FileEnabled(line, fw[1])
                      THEN WriteFlush("file", line,
                                      IF fw[1].json_format THEN "json" ELSE "plain")
                      ELSE <<>>
    IN  to_stderr \o to_stdout \o to_file

\* The clock read of the loop with the arms of its `match` exchanged.
TimestampSwapped ==
    IF LOGGING_REALTIME THEN static_clock ELSE realtime_clock

\* The clock read of the loop: LOGGING_REALTIME is loaded once and selects the
\* real-time or the static clock, whose current time becomes the record's timestamp.
Timestamp ==
    IF LOGGING_REALTIME THEN realtime_clock ELSE static_clock

\* rx.recv() on a non-empty channel: the oldest event.
Recv(q) == Head(q)

\* What rx.recv() leaves in the channel.
Rest(q) == Tail(q)

\* One iteration of the loop that dequeues LogEvent::Log.
ConsumerLog ==
    /\ consumer = "running"
    /\ queue # <<>>
    /\ Recv(queue).kind = "Log"
    /\ LET line == Recv(queue)
           cfg == logger[1]
       IN  /\ received' = [received EXCEPT ![line.p] = Append(@, line.n)]
           /\ stamps' = [stamps EXCEPT ![line.p] = Append(@,
                  [ n |-> line.n, timestamp |-> Timestamp, clock_ops |-> clock_ops ])]
           /\ io' = IF ComponentDiscards(cfg, line)
                       THEN io
                       ELSE [io EXCEPT ![line.p] =
                                @ \o Offer(cfg, file_writer_opt, line)]
    /\ queue' = Rest(queue)
    /\ UNCHANGED << LOGGING_INITIALIZED, LOGGING_BYPASSED, LOGGING_COLORED, logger,
                    tx_dropped, consumer, exit_cause, file_writer_opt, diag,
                    init_errors, calls, panicked, nflush, ninit,
                    printed, spawned, clock_vars, pure_vars >>

\* The Flush iteration without its `break`: the loop goes on.
ConsumerFlushContinues ==
    /\ consumer = "running"
    /\ queue # <<>>
    /\ Recv(queue).kind = "Flush"
    /\ queue' = Rest(queue)
    /\ UNCHANGED << LOGGING_INITIALIZED, LOGGING_BYPASSED, LOGGING_COLORED, logger,
                    tx_dropped, consumer, exit_cause, file_writer_opt, io, diag,
                    init_errors, received, calls, panicked, nflush, ninit,
                    stamps, printed, spawned, clock_vars, pure_vars >>

\* The iteration that dequeues LogEvent::Flush: `break`, the thread returns and
\* drops the receiver with whatever is still queued.
ConsumerFlush ==
    /\ consumer = "running"
    /\ queue # <<>>
    /\ Recv(queue).kind = "Flush"
    /\ queue' = Rest(queue)
    /\ consumer' = "terminated"
    /\ exit_cause' = "flush"
    /\ UNCHANGED << LOGGING_INITIALIZED, LOGGING_BYPASSED, LOGGING_COLORED, logger,
                    tx_dropped, file_writer_opt, io, diag, init_errors, received,
                    calls, panicked, nflush, ninit,
                    stamps, printed, spawned, clock_vars, pure_vars >>

\* rx.recv() returns Err: the channel is empty and every sender is gone.
ConsumerHangup ==
    /\ consumer = "running"
    /\ queue = <<>>
    /\ tx_dropped
    /\ consumer' = "terminated"
    /\ exit_cause' = "hangup"
    /\ UNCHANGED << LOGGING_INITIALIZED, LOGGING_BYPASSED, LOGGING_COLORED, logger,
                    tx_dropped, queue, file_writer_opt, io, diag, init_errors,
                    received, calls, panicked, nflush, ninit,
                    stamps, printed, spawned, clock_vars, pure_vars >>

\* The consumer thread's next step.
ConsumerNext == ConsumerLog \/ ConsumerFlush \/ ConsumerHangup

\* The Logger, and with it the channel's only Sender, is dropped: the hang-up the
\* loop of handle_messages is written against ("until channel is hung up"). The
\* installed Logger is owned by the `log` crate, outside this module.
SenderDropped ==
    /\ Len(logger) = 1
    /\ ~tx_dropped
    /\ tx_dropped' = TRUE
    /\ UNCHANGED << LOGGING_INITIALIZED, LOGGING_BYPASSED, LOGGING_COLORED, logger,
                    queue, consumer, exit_cause, file_writer_opt, io, diag,
                    init_errors, received, calls, panicked, nflush, ninit,
                    stamps, printed, spawned, clock_vars, pure_vars >>

\* --------------------------------------------------------- installation
\* The body of Logger::init_with_config with the thread spawned whatever
\* set_boxed_logger returns.
InstallAlwaysSpawns(config, file_config, created) ==
    /\ ninit < MaxInits
    /\ ninit' = ninit + 1
    /\ consumer' = "running"
    /\ spawned' = spawned + 1
    /\ file_writer_opt' =
          IF config.fileout_level # Off
             THEN NewFileWriter(config.fileout_level, file_config, created)
             ELSE <<>>
    /\ IF Len(logger) = 0
          THEN /\ logger' = <<config>>
               /\ init_errors' = init_errors
               /\ printed' = printed + (IF config.print_config THEN 4 ELSE 0)
          ELSE /\ init_errors' = init_errors + 1
               /\ printed' = printed + (IF config.print_config THEN 3 ELSE 0)
               /\ UNCHANGED logger
    /\ UNCHANGED << LOGGING_BYPASSED, tx_dropped, queue, exit_cause, io, diag,
                    received, calls, panicked, nflush,
                    stamps, clock_vars, pure_vars >>

\* The body of Logger::init_with_config: with print_config two lines are printed, then
\* set_boxed_logger is tried. On Ok the consumer thread is spawned with the receiver
\* and builds its writers, and with print_config the caller and the thread print one
\* more line each; on Err a line goes to stderr.
Install(config, file_config, created) ==
    /\ ninit < MaxInits
    /\ ninit' = ninit + 1
    /\ IF Len(logger) = 0
          THEN /\ logger' = <<config>>
               /\ consumer' = "running"
               /\ spawned' = spawned + 1
               /\ file_writer_opt' =
                    IF config.fileout_level # Off
                       THEN NewFileWriter(config.fileout_level, file_config, created)
                       ELSE <<>>
               /\ init_errors' = init_errors
               /\ printed' = printed + (IF config.print_config THEN 4 ELSE 0)
          ELSE /\ init_errors' = init_errors + 1
               /\ printed' = printed + (IF config.print_config THEN 2 ELSE 0)
               /\ UNCHANGED << logger, consumer, spawned, file_writer_opt >>
    /\ UNCHANGED << LOGGING_BYPASSED, tx_dropped, queue, exit_cause, io, diag,
                    received, calls, panicked, nflush,
                    stamps, clock_vars, pure_vars >>

\* Logger::init_with_config.
InitWithConfig(config, file_config, created) ==
    /\ Install(config, file_config, created)
    /\ UNCHANGED << LOGGING_INITIALIZED, LOGGING_COLORED >>

\* What the consumer looks components up in: the parsed map's entries for the
\* component names.
InstalledConfig(cfg) ==
    [cfg EXCEPT !.component_level =
        [c \in Components |->
            IF <<c>> \in DOMAIN cfg.component_level
               THEN cfg.component_level[<<c>>] ELSE <<>>]]

\* Logger::init_with_env, with NAUTILUS_LOG set to the spec string.
InitWithEnv(file_config, created) ==
    InitWithConfig(InstalledConfig(FromSpec(env_spec)), file_config, created)

\* init_logging.
InitLogging(config, file_config, created) ==
    /\ LOGGING_INITIALIZED' = TRUE
    /\ LOGGING_COLORED' = config.is_colored
    /\ Install(config, file_config, created)

\* --------------------------------------------------------- specification
\* Process start: the statics at their initial values, no sink installed.
InitProgram ==
    /\ LOGGING_INITIALIZED = FALSE
    /\ LOGGING_BYPASSED = FALSE
    /\ LOGGING_COLORED = TRUE
    /\ logger = <<>>
    /\ tx_dropped = FALSE
    /\ queue = <<>>
    /\ consumer = "none"
    /\ exit_cause = "none"
    /\ file_writer_opt = <<>>
    /\ io = [p \in Producers |-> <<>>]
    /\ diag = [p \in Producers |-> <<>>]
    /\ init_errors = 0
    /\ received = [p \in Producers |-> <<>>]
    /\ calls = [p \in Producers |-> <<>>]
    /\ panicked = {}
    /\ nflush = 0
    /\ ninit = 0
    /\ LOGGING_REALTIME = TRUE
    /\ static_clock = 0
    /\ realtime_clock = MaxStaticTime + 1
    /\ clock_ops = 0
    /\ stamps = [p \in Producers |-> <<>>]
    /\ printed = 0
    /\ spawned = 0

\* Process start with no spec string and no LogLineWrapper under test.
Init ==
    /\ InitProgram
    /\ env_spec = <<>>
    /\ parsed = <<>>
    /\ wrapper = <<>>
    /\ builds = <<>>
    /\ last = <<>>

\* The channel protocol: two producer threads and the consumer, against the plain
\* setups of the tests; the logger is installed once ("should only be called once",
\* lines 254-257).
Next ==
    \/ \E setup \in PlainTestSetups :
          /\ Len(logger) = 0
          /\ InitWithConfig(setup[1], setup[2], TRUE)
    \/ \E p \in Producers, level \in {Error, Info} : Log(p, level, "RiskEngine")
    \/ \E p \in Producers : Flush(p)
    \/ SenderDropped
    \/ ConsumerLog
    \/ ConsumerFlush
    \/ ConsumerHangup

Spec == Init /\ [][Next]_vars

\* The same protocol with the record of the tests: info!(component = "RiskEngine").
LiveNext ==
    \/ \E setup \in PlainTestSetups :
          /\ Len(logger) = 0
          /\ InitWithConfig(setup[1], setup[2], TRUE)
    \/ \E p \in Producers : Log(p, Info, "RiskEngine")
    \/ \E p \in Producers : Flush(p)
    \/ SenderDropped
    \/ ConsumerLog
    \/ ConsumerFlush
    \/ ConsumerHangup

\* The consumer is an OS thread of its own: it is scheduled whenever it can step.
FairSpec == Init /\ [][LiveNext]_vars /\ WF_vars(ConsumerNext)

\* The filters: one producer thread, every configuration and every record, with
\* the bypass; the logger is installed once.
FilterNext ==
    \/ \E config \in AllConfigs, created \in BOOLEAN :
          /\ Len(logger) = 0
          /\ InitWithConfig(config, FileWriterConfig(FALSE), created)
    \/ SetBypass
    \/ \E level \in {Error, Info, Debug}, component \in Components :
          Log(1, level, component)
    \/ Flush(1)
    \/ ConsumerLog
    \/ ConsumerFlush

FilterSpec == Init /\ [][FilterNext]_vars

\* Installation: any sequence of init_logging, Logger::init_with_config and
\* Logger::init_with_env calls, one producer thread.
InstallNext ==
    \/ \E setup \in TestSetups, created \in BOOLEAN :
          InitWithConfig(setup[1], setup[2], created)
    \/ \E created \in BOOLEAN : InitWithEnv(FileWriterConfig(FALSE), created)
    \/ \E setup \in TestSetups, created \in BOOLEAN :
          InitLogging(setup[1], setup[2], created)
    \/ \E level \in {Error, Info} : Log(1, level, "RiskEngine")
    \/ Flush(1)
    \/ ConsumerLog
    \/ ConsumerFlush

\* Process start with NAUTILUS_LOG set to one of the tests' spec strings.
InstallInit ==
    /\ InitProgram
    /\ env_spec \in TestSpecs
    /\ parsed = <<>>
    /\ wrapper = <<>>
    /\ builds = <<>>
    /\ last = <<>>

InstallSpec == InstallInit /\ [][InstallNext]_vars

\* The clock: one producer and the consumer while the clock mode and the static
\* time are set and real time passes, as test_logging_to_file does before it logs.
ClockNext ==
    \/ /\ Len(logger) = 0
       /\ InitWithConfig(LoggerConfig(Info, Debug, NoComponentLevels, FALSE, FALSE),
                         FileWriterConfig(FALSE), TRUE)
    \/ SetRealtimeMode
    \/ SetStaticMode
    \/ \E time_ns \in 1..MaxStaticTime : SetStaticTime(time_ns)
    \/ Tick
    \/ \E level \in {Error, Info} : Log(1, level, "RiskEngine")
    \/ ConsumerLog

ClockSpec == Init /\ [][ClockNext]_vars

\* The consumer's filters: one producer whose records are all dequeued, against
\* every combination of stdout, fileout and component levels, the file writer
\* created or not.
OfferNext ==
    \/ \E config \in AllConfigs, created \in BOOLEAN :
          /\ Len(logger) = 0
          /\ InitWithConfig(config, FileWriterConfig(FALSE), created)
    \/ \E level \in {Error, Info, Debug}, component \in Components :
          Log(1, level, component)
    \/ ConsumerLog

OfferSpec == Init /\ [][OfferNext]_vars

\* The renderings: one producer and the consumer against every combination of
\* is_colored and the file writer's format.
SinkNext ==
    \/ \E is_colored \in BOOLEAN, json_format \in BOOLEAN :
          /\ Len(logger) = 0
          /\ InitWithConfig(LoggerConfig(Info, Debug, NoComponentLevels, is_colored, FALSE),
                            FileWriterConfig(json_format), TRUE)
    \/ \E level \in {Error, Info, Debug} : Log(1, level, "RiskEngine")
    \/ Flush(1)
    \/ ConsumerLog
    \/ ConsumerFlush

SinkSpec == Init /\ [][SinkNext]_vars

\* from_spec as a function of its argument: any spec string, parsed once.
ParseInit ==
    /\ InitProgram
    /\ env_spec \in SpecStrings
    /\ parsed = <<>>
    /\ wrapper = <<>>
    /\ builds = <<>>
    /\ last = <<>>

ParseNext == FromSpecCall

ParseSpec == ParseInit /\ [][ParseNext]_vars

\* The renderings as functions of the record: a LogLineWrapper of any record, its
\* three getters called in any order.
WrapperInit ==
    /\ InitProgram
    /\ env_spec = <<>>
    /\ parsed = <<>>
    /\ wrapper \in { << LogLineWrapper(line, "TRADER-001", "1970-01-20T02:20:00.000000000Z") >> :
                        line \in LogLines }
    /\ builds = [ plain |-> 0, colored |-> 0, json |-> 0 ]
    /\ last = <<>>

WrapperNext ==
    \/ GetString
    \/ GetColored
    \/ GetJson

WrapperSpec == WrapperInit /\ [][WrapperNext]_vars

\* ------------------------------------------------------------ properties
\* The config the consumer and the producers run with.
Cfg == logger[1]

\* The log calls made so far, as (producer, call number) pairs.
CallIds == UNION { { <<p, n>> : n \in 1..Len(calls[p]) } : p \in Producers }

Call(id) == calls[id[1]][id[2]]

InQueue(id) ==
    \E i \in 1..Len(queue) :
        queue[i].kind = "Log" /\ queue[i].p = id[1] /\ queue[i].n = id[2]

WasReceived(id) ==
    \E i \in 1..Len(received[id[1]]) : received[id[1]][i] = id[2]

\* The writer calls made for a record.
IoOf(id) == { i \in 1..Len(io[id[1]]) : io[id[1]][i][3] = id[2] }

Written(id, writer) ==
    \E i \in IoOf(id) : io[id[1]][i][1] = writer /\ io[id[1]][i][2] = "write"

Flushed(id, writer) ==
    \E i \in IoOf(id) : io[id[1]][i][1] = writer /\ io[id[1]][i][2] = "flush"

DiagCount(id) ==
    Cardinality({ i \in 1..Len(diag[id[1]]) : diag[id[1]][i] = id[2] })

\* The gate as the specification words it (section 4.5), on a call's inputs.
GateAdmits(c) ==
    /\ ~c.bypassed
    /\ (c.level = Error \/ c.level <= Cfg.stdout_level \/ c.level <= Cfg.fileout_level)

\* The record's component has an entry and the record is more verbose than it.
BelowComponentLevel(c) ==
    /\ Cfg.component_level[c.component] # <<>>
    /\ c.level > Cfg.component_level[c.component][1]

\* The writers section 4.3 enables for a record.
WritersFor(c) ==
    { w \in {"stderr", "stdout", "file"} :
        \/ w = "stderr" /\ c.level = Error
        \/ w = "stdout" /\ c.level # Error /\ c.level <= Cfg.stdout_level
        \/ w = "file" /\ file_writer_opt # <<>> /\ c.level <= Cfg.fileout_level }

\* C1: the records of one producer are dequeued, and offered to the writers, in the
\* order in which that producer emitted them, whatever the other producers do.
C1_PerProducerFifo ==
    \A p \in Producers :
        /\ \A i, j \in 1..Len(received[p]) :
              i < j => received[p][i] < received[p][j]
        /\ \A i, j \in 1..Len(io[p]) :
              i < j => io[p][i][3] <= io[p][j][3]

C1_Witness ==
    /\ Len(received[1]) = 2
    /\ Len(received[2]) = 2
    /\ \E i \in 1..Len(io[1]) : io[1][i][3] = 2
    /\ \E i \in 1..Len(io[1]) : io[1][i][3] = 1

\* C2 as claimed: every Error record emitted with the bypass unset and the consumer
\* not yet terminated is written to stderr (or is still waiting for a running
\* consumer), for every stdout_level, fileout_level and component_level.
C2_ErrorAlwaysOnStderr ==
    \A id \in CallIds :
        (Call(id).level = Error /\ ~Call(id).bypassed /\ Call(id).rx_alive)
            => \/ InQueue(id) /\ consumer = "running"
               \/ Written(id, "stderr")

\* C2 as amended: every Error record emitted with the bypass unset and the consumer
\* not yet terminated is enqueued, and once the consumer has dequeued it it is on
\* stderr unless the component_level entry of its component is Off.
C2_ErrorOnStderrUnlessOff ==
    \A id \in CallIds :
        (Call(id).level = Error /\ ~Call(id).bypassed /\ Call(id).rx_alive)
            => /\ InQueue(id) \/ WasReceived(id)
               /\ WasReceived(id) =>
                    \/ Cfg.component_level[Call(id).component] = <<Off>>
                    \/ Written(id, "stderr")

C2_Witness ==
    \E id \in CallIds :
        /\ Call(id).level = Error
        /\ Cfg.stdout_level = Off
        /\ Cfg.fileout_level = Off
        /\ Cfg.component_level[Call(id).component] = <<Error>>
        /\ Written(id, "stderr")

\* C3: the gate admits a record exactly when the bypass is unset and the record is
\* an Error or within stdout_level or within fileout_level; a record that is not an
\* Error and is more verbose than both levels is not enqueued and reaches no writer.
C3_ProducerGate ==
    \A id \in CallIds :
        /\ GateAdmits(Call(id))
              <=> (InQueue(id) \/ WasReceived(id) \/ DiagCount(id) > 0)
        /\ ( /\ Call(id).level # Error
             /\ Call(id).level > Cfg.stdout_level
             /\ Call(id).level > Cfg.fileout_level )
              => ~InQueue(id) /\ ~WasReceived(id) /\ IoOf(id) = {}

C3_Witness ==
    \E id \in CallIds :
        /\ ~Call(id).bypassed
        /\ Call(id).level = Debug
        /\ Cfg.stdout_level = Info
        /\ Cfg.fileout_level = Error
        /\ ~InQueue(id)
        /\ \E other \in CallIds : Call(other).level = Info /\ Written(other, "stdout")

\* C4: a dequeued record whose component has a component_level entry and that is
\* more verbose than the entry reaches no writer; every other dequeued record is
\* written to each writer enabled for it.
C4_ComponentFilter ==
    \A id \in CallIds :
        WasReceived(id) =>
            IF BelowComponentLevel(Call(id))
               THEN IoOf(id) = {}
               ELSE \A w \in WritersFor(Call(id)) : Written(id, w)

C4_Witness ==
    \E a, b \in CallIds :
        /\ WasReceived(a) /\ WasReceived(b)
        /\ Call(a).component = "RiskEngine" /\ Call(b).component = "Portfolio"
        /\ Call(a).level = Info /\ Call(b).level = Info
        /\ Cfg.component_level["RiskEngine"] = <<Error>>
        /\ IoOf(a) = {}
        /\ Written(b, "stdout")

\* C5: the bypass flag never goes back to false, and a record whose log call found
\* the flag set is not enqueued, gets no send-failure line and reaches no writer,
\* an Error record included.
C5_BypassLatch ==
    /\ [][LOGGING_BYPASSED => LOGGING_BYPASSED']_vars
    /\ [](\A id \in CallIds :
            Call(id).bypassed =>
                /\ ~InQueue(id) /\ ~WasReceived(id)
                /\ IoOf(id) = {} /\ DiagCount(id) = 0)

C5_Witness ==
    \E a, b \in CallIds :
        /\ ~Call(a).bypassed /\ Written(a, "stderr")
        /\ Call(b).bypassed /\ Call(b).level = Error
        /\ consumer = "running" /\ queue = <<>>

\* C6: `initialized` is true exactly when an installation has succeeded.
C6_InitializedIffInstalled ==
    LOGGING_INITIALIZED <=> (Len(logger) = 1)

\* C7: no Logger::log or Logger::flush call panics, also after the consumer exited.
C7_NoProducerPanics ==
    panicked = {}

\* C8: a record the gate admits while the receiver is gone gets exactly one
\* send-failure line on stderr and goes nowhere else, every time; no other record
\* gets such a line; writing the line changes no flag, queue, writer or thread.
C8_SendFailure ==
    /\ [](\A id \in CallIds :
            IF GateAdmits(Call(id)) /\ ~Call(id).rx_alive
               THEN /\ DiagCount(id) = 1
                    /\ ~InQueue(id) /\ ~WasReceived(id) /\ IoOf(id) = {}
               ELSE DiagCount(id) = 0)
    /\ [][diag' # diag =>
            UNCHANGED << LOGGING_INITIALIZED, LOGGING_BYPASSED, LOGGING_COLORED,
                         logger, queue, consumer, io, panicked >>]_vars

C8_Witness ==
    \E p \in Producers :
        /\ Len(diag[p]) = 2
        /\ p \notin panicked
        /\ DiagCount(<<p, 1>>) = 1
        /\ DiagCount(<<p, 2>>) = 1

FlushQueued == \E i \in 1..Len(queue) : queue[i].kind = "Flush"

\* C9: a running consumer with a Flush in its channel, or with its sender dropped,
\* eventually terminates; it terminates only on dequeuing a Flush or on hang-up of
\* an empty channel; once terminated it dequeues nothing and calls no writer.
C9_Termination ==
    /\ (consumer = "running" /\ FlushQueued) ~> (consumer = "terminated")
    /\ (consumer = "running" /\ tx_dropped) ~> (consumer = "terminated")
    /\ [][(consumer = "running" /\ consumer' = "terminated") =>
            \/ queue # <<>> /\ Head(queue).kind = "Flush"
            \/ queue = <<>> /\ tx_dropped]_vars
    /\ [][consumer = "terminated" =>
            /\ consumer' = "terminated"
            /\ io' = io /\ received' = received /\ queue' = queue]_vars

C9_Witness ==
    /\ consumer = "terminated"
    /\ exit_cause = "hangup"
    /\ Len(received[1]) = 2
    /\ io[1] # <<>>

\* C10: when the consumer has terminated on a Flush, every admitted record that was
\* enqueued before that Flush has been dequeued and, unless the component filter
\* discards it, written to and flushed on each writer enabled for it.
C10_FlushDrains ==
    exit_cause = "flush" =>
        \A id \in CallIds :
            (GateAdmits(Call(id)) /\ Call(id).rx_alive /\ ~Call(id).behind_flush)
                => /\ WasReceived(id)
                   /\ ~BelowComponentLevel(Call(id)) =>
                        \A w \in WritersFor(Call(id)) :
                            Written(id, w) /\ Flushed(id, w)

C10_Witness ==
    /\ exit_cause = "flush"
    /\ \E a, b \in CallIds :
          /\ a[1] # b[1]
          /\ ~Call(a).behind_flush /\ Written(a, "stderr") /\ Written(a, "file")
          /\ ~Call(b).behind_flush /\ Written(b, "stdout")
    /\ \E c \in CallIds : Call(c).behind_flush /\ InQueue(c)

\* The clock reads made for a record, as positions in its producer's `stamps`.
StampsOf(id) == { i \in 1..Len(stamps[id[1]]) : stamps[id[1]][i].n = id[2] }

\* C11: the timestamp of a record is read by the consumer when it dequeues the
\* record, not by the producer when it enqueues it. Every dequeued record has exactly
\* one clock read and a record still to be dequeued has none; a clock mode and static
\* time that were set before the record was emitted and not changed before it was
\* dequeued determine its timestamp; and the read made at a dequeue returns the
\* static register's value of that moment (zero until it is set) when LOGGING_REALTIME
\* is false then, and the real-time clock's value when it is true.
C11_TimestampAtDequeue ==
    /\ [](\A id \in CallIds :
            /\ Cardinality(StampsOf(id)) = (IF WasReceived(id) THEN 1 ELSE 0)
            /\ \A i \in StampsOf(id) :
                  (~Call(id).realtime /\ stamps[id[1]][i].clock_ops = Call(id).clock_ops)
                      => stamps[id[1]][i].timestamp = Call(id).static_time)
    /\ [][\A p \in Producers :
            stamps'[p] # stamps[p] =>
                /\ received'[p] # received[p]
                /\ Len(stamps'[p]) = Len(stamps[p]) + 1
                /\ stamps'[p][Len(stamps'[p])].timestamp =
                      (IF LOGGING_REALTIME THEN realtime_clock ELSE static_clock)]_vars

\* A record emitted in static mode whose timestamp is the static time set between
\* its emission and its dequeue, and one stamped with the register's initial zero.
C11_Witness ==
    /\ \E id \in CallIds : \E i \in StampsOf(id) :
          /\ ~Call(id).realtime
          /\ Call(id).static_time = 0
          /\ stamps[id[1]][i].clock_ops > Call(id).clock_ops
          /\ stamps[id[1]][i].timestamp = 1
    /\ \E id \in CallIds : \E i \in StampsOf(id) :
          /\ ~Call(id).realtime
          /\ stamps[id[1]][i].timestamp = 0

\* C12 as stated: of the records the consumer dequeues, none is written to both
\* stdout and stderr; one is written to stderr exactly when it is Error and passes
\* the component filter, and to stdout exactly when it is not Error and at least as
\* severe as stdout_level; an Error record is never written to stdout.
C12_StdoutIffSevereEnough ==
    \A id \in CallIds :
        WasReceived(id) =>
            /\ ~(Written(id, "stdout") /\ Written(id, "stderr"))
            /\ Written(id, "stderr") <=>
                  (Call(id).level = Error /\ ~BelowComponentLevel(Call(id)))
            /\ Written(id, "stdout") <=>
                  (Call(id).level # Error /\ Call(id).level <= Cfg.stdout_level)
            /\ Call(id).level = Error => ~Written(id, "stdout")

\* C12: no record is written to both stdout and stderr. A dequeued record is written
\* to stderr exactly when it is Error and passes the component filter, and to stdout
\* exactly when it is not Error, is at least as severe as stdout_level and passes the
\* component filter; an Error record is never written to stdout, and a record that
\* was not dequeued is written to neither.
C12_StdoutStderrExclusive ==
    \A id \in CallIds :
        /\ ~(Written(id, "stdout") /\ Written(id, "stderr"))
        /\ Call(id).level = Error => ~Written(id, "stdout")
        /\ ~WasReceived(id) => ~Written(id, "stdout") /\ ~Written(id, "stderr")
        /\ WasReceived(id) =>
              /\ Written(id, "stderr") <=>
                    (Call(id).level = Error /\ ~BelowComponentLevel(Call(id)))
              /\ Written(id, "stdout") <=>
                    /\ Call(id).level # Error
                    /\ Call(id).level <= Cfg.stdout_level
                    /\ ~BelowComponentLevel(Call(id))

\* An Error record on stderr only and an Info record on stdout only, both of a
\* component that has a component_level entry.
C12_Witness ==
    /\ Len(logger) = 1
    /\ Cfg.component_level["RiskEngine"] # <<>>
    /\ \E a, b \in CallIds :
          /\ Call(a).level = Error /\ Call(a).component = "RiskEngine"
          /\ Written(a, "stderr") /\ ~Written(a, "stdout")
          /\ Call(b).level = Info /\ Call(b).component = "RiskEngine"
          /\ Written(b, "stdout") /\ ~Written(b, "stderr")

\* The fold step of C13 on one token: the two flags, `K=L` with exactly one "=" and a
\* level L that parses, and every other token leaving the config as it was.
FoldStep(cfg, token) ==
    LET eqs == { i \in 1..Len(token) : token[i] = "=" }
        i == CHOOSE j \in eqs : TRUE
        K == SubSeq(token, 1, i - 1)
        L == LevelFilterFromStr(SubSeq(token, i + 1, Len(token)))
    IN  IF token = <<"is_colored">> THEN [cfg EXCEPT !.is_colored = TRUE]
        ELSE IF token = <<"print_config">> THEN [cfg EXCEPT !.print_config = TRUE]
        ELSE IF Cardinality(eqs) # 1 \/ L = <<>> THEN cfg
        ELSE IF K = <<"stdout">> THEN [cfg EXCEPT !.stdout_level = L[1]]
        ELSE IF K = <<"fileout">> THEN [cfg EXCEPT !.fileout_level = L[1]]
        ELSE [cfg EXCEPT !.component_level[K] = L]

RECURSIVE Fold(_, _)
Fold(cfg, tokens) ==
    IF tokens = <<>> THEN cfg ELSE Fold(FoldStep(cfg, Head(tokens)), Tail(tokens))

\* C13: from_spec returns the left-to-right fold of FoldStep over the ';'-separated
\* tokens of the spec string, starting from the default config.
C13_FromSpecIsFold ==
    parsed # <<>> => parsed[1] = Fold(DefaultConfig, Split(env_spec, ";"))

\* The default config with level Warn for key k.
WarnFor(k) ==
    IF k = "stdout" THEN [DefaultConfig EXCEPT !.stdout_level = Warn]
    ELSE IF k = "fileout" THEN [DefaultConfig EXCEPT !.fileout_level = Warn]
    ELSE [DefaultConfig EXCEPT !.component_level[<<k>>] = <<Warn>>]

\* C14: for every key K and every casing of the value, from_spec("K=WARNING") and
\* from_spec("K=WARN") both yield the default config with level Warn for K.
C14_WarningIsWarn ==
    parsed # <<>> =>
        \A k \in Keys, v \in Values :
            (ToUpper(v) \in {"WARN", "WARNING"} /\ env_spec = <<k, "=", v>>)
                => parsed[1] = WarnFor(k)

\* The text ends with a newline that no other newline precedes.
EndsWithOneNewline(text) ==
    /\ Len(text) >= 1
    /\ text[Len(text)] = "LF"
    /\ Len(text) >= 2 => text[Len(text) - 1] # "LF"

\* C15: every plain, colored or JSON rendering a LogLineWrapper returns, for every
\* message (empty, holding a newline, ending with a newline), ends with exactly one
\* newline, and the JSON rendering holds no newline but that last one.
C15_OneTrailingNewline ==
    last # <<>> =>
        /\ EndsWithOneNewline(last[2])
        /\ last[1] = "json" =>
              \A i \in 1..(Len(last[2]) - 1) : last[2][i] # "LF"

\* C18: each of the three renderings of a LogLineWrapper is built at most once,
\* whatever sequence of get_string, get_colored and get_json calls is made.
C18_BuiltAtMostOnce ==
    Len(wrapper) = 1 =>
        /\ builds.plain <= 1
        /\ builds.colored <= 1
        /\ builds.json <= 1

\* The place of a writer in the order stderr, stdout, file.
WriterRank(writer) ==
    CASE writer = "stderr" -> 1
      [] writer = "stdout" -> 2
      [] writer = "file" -> 3

\* C16: the writer calls made for a dequeued record go through the writers in the
\* order stderr, stdout, file, each writer at most once; every write is followed at
\* once by the flush of the same writer for the same record and every flush follows
\* such a write; the calls for one record are over before those of the next begin,
\* and once a record is dequeued all of its calls have been made; and a writer that
\* is not enabled for a record is neither written nor flushed for it.
C16_WriteThenFlushInOrder ==
    /\ (\A p \in Producers :
            /\ \A i \in 1..Len(io[p]) :
                  /\ io[p][i][2] = "write" =>
                        /\ i < Len(io[p])
                        /\ io[p][i + 1][1] = io[p][i][1]
                        /\ io[p][i + 1][2] = "flush"
                        /\ io[p][i + 1][3] = io[p][i][3]
                  /\ io[p][i][2] = "flush" =>
                        /\ i > 1
                        /\ io[p][i - 1][1] = io[p][i][1]
                        /\ io[p][i - 1][2] = "write"
                        /\ io[p][i - 1][3] = io[p][i][3]
            /\ \A i, j \in 1..Len(io[p]) :
                  i < j =>
                      /\ io[p][i][3] <= io[p][j][3]
                      /\ (io[p][i][3] = io[p][j][3] /\ io[p][i][2] = "write"
                            /\ io[p][j][2] = "write")
                           => WriterRank(io[p][i][1]) < WriterRank(io[p][j][1]))
    /\ Len(logger) = 1 =>
          \A id \in CallIds : \A w \in {"stderr", "stdout", "file"} :
              IF /\ WasReceived(id)
                 /\ w \in WritersFor(Call(id))
                 /\ ~BelowComponentLevel(Call(id))
                 THEN Written(id, w) /\ Flushed(id, w)
                 ELSE ~Written(id, w) /\ ~Flushed(id, w)

\* An Error record written to and flushed on stderr and then the file while stdout
\* is left alone, and an Info record on stdout and then the file.
C16_Witness ==
    \E a, b \in CallIds :
        /\ Written(a, "stderr") /\ Flushed(a, "stderr") /\ Written(a, "file")
        /\ ~Written(a, "stdout") /\ ~Flushed(a, "stdout")
        /\ Written(b, "stdout") /\ Flushed(b, "stdout") /\ Written(b, "file")
        /\ ~Written(b, "stderr") /\ ~Flushed(b, "stderr")

\* C17: every write to stderr or stdout hands over the colored rendering when the
\* installed config has is_colored and the plain rendering otherwise; every write to
\* the file hands over the JSON rendering when the file writer's json_format is set
\* and the plain rendering otherwise, never the colored one.
C17_RenderingPerSink ==
    \A p \in Producers : \A i \in 1..Len(io[p]) :
        io[p][i][2] = "write" =>
            /\ io[p][i][1] \in {"stderr", "stdout"} =>
                  io[p][i][4] = (IF Cfg.is_colored THEN "colored" ELSE "plain")
            /\ io[p][i][1] = "file" =>
                  /\ io[p][i][4] = (IF file_writer_opt[1].json_format
                                        THEN "json" ELSE "plain")
                  /\ io[p][i][4] # "colored"

\* With is_colored set and a file writer that does not write JSON: one record on
\* stderr and one on stdout, colored, and both in the file, plain.
C17_Witness ==
    /\ Len(logger) = 1
    /\ Cfg.is_colored
    /\ file_writer_opt # <<>>
    /\ ~file_writer_opt[1].json_format
    /\ \E i, j, k \in 1..Len(io[1]) :
          /\ io[1][i] = <<"stderr", "write", io[1][i][3], "colored">>
          /\ io[1][j] = <<"stdout", "write", io[1][j][3], "colored">>
          /\ io[1][k] = <<"file", "write", io[1][k][3], "plain">>

\* C19 as stated: at most one consumer thread is ever spawned, by exactly the
\* installation call that succeeds; a failed installation spawns no thread, writes
\* nothing to stdout, stderr or the file, and leaves the installed logger and its
\* config unchanged.
C19_FailedInstallWritesNothing ==
    /\ [](spawned <= 1 /\ (spawned = 1 <=> Len(logger) = 1))
    /\ [][ninit' # ninit =>
            IF Len(logger) = 0
               THEN spawned' = spawned + 1 /\ consumer' = "running"
               ELSE /\ spawned' = spawned
                    /\ consumer' = consumer
                    /\ logger' = logger
                    /\ io' = io /\ diag' = diag
                    /\ init_errors' = init_errors
                    /\ printed' = printed]_vars

\* C19: at most one consumer thread is ever spawned, by exactly the installation
\* call that succeeds. A failed installation spawns no thread, builds no writer,
\* writes no record and touches neither the channel nor the installed logger and its
\* config; it writes its one failure line to stderr and, when its own config has
\* print_config, the two config lines to stdout.
C19_OneConsumerThread ==
    /\ [](/\ spawned <= 1
          /\ spawned = 1 <=> Len(logger) = 1
          /\ spawned = 0 <=> consumer = "none")
    /\ [][ninit' # ninit =>
            IF Len(logger) = 0
               THEN /\ spawned' = spawned + 1
                    /\ consumer' = "running"
                    /\ Len(logger') = 1
                    /\ init_errors' = init_errors
               ELSE /\ spawned' = spawned
                    /\ consumer' = consumer
                    /\ logger' = logger
                    /\ file_writer_opt' = file_writer_opt
                    /\ queue' = queue
                    /\ io' = io /\ diag' = diag
                    /\ init_errors' = init_errors + 1
                    /\ printed' \in {printed, printed + 2}]_vars

\* Two installation calls were made: one thread was spawned, the failed call left its
\* line on stderr and the config it brought, which has print_config and differs from
\* the installed one, printed its two lines.
C19_Witness ==
    /\ ninit = 2
    /\ spawned = 1
    /\ consumer = "running"
    /\ init_errors = 1
    /\ printed = 2
    /\ ~Cfg.print_config

\* C20: whenever a logger is installed, LOGGING_COLORED (what logging_is_colored
\* returns) equals the is_colored of the installed config, the one the consumer and
\* its stdout and stderr writers were built with.
C20_ColoredFlagMatchesConfig ==
    Len(logger) = 1 => LOGGING_COLORED = Cfg.is_colored

\* C21: once the consumer has terminated, every record the producer gate admitted
\* has either been dequeued by the consumer or been named by its producer's
\* send-failure line on stderr, whatever the interleaving of the producers' log
\* calls with a Flush and with the consumer's termination.
C21_NoSilentLoss ==
    consumer = "terminated" =>
        \A id \in CallIds :
            GateAdmits(Call(id)) => (WasReceived(id) \/ DiagCount(id) >= 1)

\* C22: with bypass unset and the file writer constructed whenever fileout_level is
\* not Off, a log call's record is enqueued (Logger::enabled admitted it) exactly
\* when at least one of the stderr, stdout and file writers is enabled for it; every
\* dequeued record the component filter does not discard is written to at least one
\* writer; and every record written to a writer satisfies the gate's condition.
C22_GateAgreesWithSinks ==
    (/\ Len(logger) = 1
     /\ ~LOGGING_BYPASSED
     /\ Cfg.fileout_level # Off => file_writer_opt # <<>>) =>
        \A id \in CallIds :
            /\ (InQueue(id) \/ WasReceived(id)) <=> WritersFor(Call(id)) # {}
            /\ (WasReceived(id) /\ ~BelowComponentLevel(Call(id))) =>
                  \E w \in {"stderr", "stdout", "file"} : Written(id, w)
            /\ \A w \in {"stderr", "stdout", "file"} :
                  Written(id, w) => GateAdmits(Call(id))

\* With stdout=Off and the file writer constructed: a record enabled on the file
\* was written to it and not to stdout, and a record enabled on no writer was not
\* enqueued.
C22_Witness ==
    /\ Len(logger) = 1
    /\ Cfg.stdout_level = Off
    /\ file_writer_opt # <<>>
    /\ \E a, b \in CallIds :
          /\ "file" \in WritersFor(Call(a))
          /\ Written(a, "file") /\ ~Written(a, "stdout")
          /\ WritersFor(Call(b)) = {}
          /\ ~InQueue(b) /\ ~WasReceived(b)

\* The number of writes of a record to a writer.
WriteCount(id, writer) ==
    Cardinality({ i \in IoOf(id) :
                    io[id[1]][i][1] = writer /\ io[id[1]][i][2] = "write" })

\* The n-th record of producer p is in the channel and was enqueued with no Flush
\* ahead of it.
EnqueuedAheadOfFlush(p, n) ==
    /\ n <= Len(calls[p])
    /\ InQueue(<<p, n>>)
    /\ ~calls[p][n].behind_flush

\* The n-th record of producer p was dequeued and, unless the component filter
\* discards it, written exactly once to each writer enabled for it.
Delivered(p, n) ==
    /\ n <= Len(calls[p])
    /\ WasReceived(<<p, n>>)
    /\ ~BelowComponentLevel(calls[p][n]) =>
          \A w \in WritersFor(calls[p][n]) : WriteCount(<<p, n>>, w) = 1

\* C23: with the consumer thread scheduled fairly, every record enqueued with no
\* Flush ahead of it in the channel is eventually dequeued and, if it passes the
\* component filter, written to each writer enabled for it; and no record is ever
\* written to a writer more than once.
C23_EventuallyWritten ==
    /\ \A p \in Producers : \A n \in 1..MaxLogs :
          EnqueuedAheadOfFlush(p, n) ~> Delivered(p, n)
    /\ [](\A id \in CallIds : \A w \in {"stderr", "stdout", "file"} :
            WriteCount(id, w) <= 1)

\* Both producers' records were enqueued ahead of any Flush and have been written,
\* once each, to stdout and to the file.
C23_Witness ==
    \E a, b \in CallIds :
        /\ a[1] # b[1]
        /\ ~Call(a).behind_flush /\ ~Call(b).behind_flush
        /\ WriteCount(a, "stdout") = 1 /\ WriteCount(a, "file") = 1
        /\ WriteCount(b, "stdout") = 1 /\ WriteCount(b, "file") = 1
        /\ FlushQueued

====
